---- MODULE Spec2Model ----
(***************************************************************************)
(* Model of snowflake-data-platform-intelligent-search.py: a Streamlit     *)
(* chat assistant that rewrites a question with the chat history, routes   *)
(* the retrieval query to one of two Cortex Search services, and asks a    *)
(* hosted model to answer.                                                 *)
(*                                                                         *)
(* Text is a sequence of one-character strings, so that lower-casing,      *)
(* substring search and the removal of apostrophes are computed as the     *)
(* script computes them.  One script run of main() that carries a question *)
(* is split at its external calls (summarizer completion, search, final    *)
(* completion); pc is the position of that run.                            *)
(***************************************************************************)
EXTENDS Integers, Sequences, FiniteSets, TLC

(* ------------------------------ bounds -------------------------------- *)

\* longest message log the exploration lets a turn produce
MaxLog == 4

\* how many configuration widgets may differ from their default at once
MaxNonDefault == 1

\* longest query drawn letter by letter when classify_prompt is checked alone
MaxQueryLen == 3

(* --------------------------- program constants ------------------------ *)

MODELS == << "mistral-large", "llama3-70b", "llama3-8b" >>

STRUCTURED_KEYWORDS ==
    << <<"n", "a", "s", "d", "a", "q", " ", "t", "r", "a", "d", "e", "d">>,
       <<"s", "y", "m", "b", "o", "l">>,
       <<"s", "e", "c", "u", "r", "i", "t", "y", " ", "n", "a", "m", "e">>,
       <<"l", "i", "s", "t", "i", "n", "g", " ", "e", "x", "c", "h", "a", "n", "g", "e">>,
       <<"m", "a", "r", "k", "e", "t", " ", "c", "a", "t", "e", "g", "o", "r", "y">>,
       <<"e", "t", "f">>,
       <<"r", "o", "u", "n", "d", " ", "l", "o", "t", " ", "s", "i", "z", "e">>,
       <<"t", "e", "s", "t", " ", "i", "s", "s", "u", "e">>,
       <<"f", "i", "n", "a", "n", "c", "i", "a", "l", " ", "s", "t", "a", "t", "u", "s">>,
       <<"c", "q", "s", " ", "s", "y", "m", "b", "o", "l">>,
       <<"n", "a", "s", "d", "a", "q", " ", "s", "y", "m", "b", "o", "l">>,
       <<"n", "e", "x", "t", "s", "h", "a", "r", "e", "s">> >>

STRUCTURED_SERVICE ==
    <<"s", "t", "o", "c", "k", "_", "m", "a", "r", "k", "e", "t", "_",
      "s", "e", "r", "v", "i", "c", "e">>

UNSTRUCTURED_SERVICE ==
    <<"p", "r", "o", "s", "p", "e", "c", "t", "u", "s", "_",
      "s", "e", "r", "v", "i", "c", "e">>

\* st.number_input(..., min_value=1, max_value=10, value=5)
MinNumber == 1

MaxNumber == 10

DefaultNumber == 5

(* ------------------------- the environment's inputs ------------------- *)

\* service names as SHOW CORTEX SEARCH SERVICES reports them (upper case)
STOCK_MARKET_SERVICE_SHOWN ==
    <<"S", "T", "O", "C", "K", "_", "M", "A", "R", "K", "E", "T", "_",
      "S", "E", "R", "V", "I", "C", "E">>

PROSPECTUS_SERVICE_SHOWN ==
    <<"P", "R", "O", "S", "P", "E", "C", "T", "U", "S", "_",
      "S", "E", "R", "V", "I", "C", "E">>

\* what the platform may report at discovery: rows of SHOW ... joined with
\* the search_column of DESC ...
Catalogs ==
    { << >>,
      << [name |-> STOCK_MARKET_SERVICE_SHOWN, search_column |-> "chunk"] >>,
      << [name |-> PROSPECTUS_SERVICE_SHOWN, search_column |-> "chunk"] >>,
      << [name |-> STOCK_MARKET_SERVICE_SHOWN, search_column |-> "chunk"],
         [name |-> PROSPECTUS_SERVICE_SHOWN, search_column |-> "text"] >> }

\* questions a user types: "ETF's" (a keyword in upper case, an apostrophe)
\* and "hi" (no keyword, no apostrophe)
Questions == { <<"E", "T", "F", "'", "s">>, <<"h", "i">> }

\* texts the completion service returns: "symbol" (a keyword) and "ok"
Completions == { <<"s", "y", "m", "b", "o", "l">>, <<"o", "k">> }

(* ------------------------------ text ---------------------------------- *)

UpperLetters ==
    <<"A", "B", "C", "D", "E", "F", "G", "H", "I", "J", "K", "L", "M",
      "N", "O", "P", "Q", "R", "S", "T", "U", "V", "W", "X", "Y", "Z">>

LowerLetters ==
    <<"a", "b", "c", "d", "e", "f", "g", "h", "i", "j", "k", "l", "m",
      "n", "o", "p", "q", "r", "s", "t", "u", "v", "w", "x", "y", "z">>

LowerChar(c) ==
    IF \E i \in 1..Len(UpperLetters) : UpperLetters[i] = c
    THEN LowerLetters[CHOOSE i \in 1..Len(UpperLetters) : UpperLetters[i] = c]
    ELSE c

\* str.lower()
Lower(s) == [i \in 1..Len(s) |-> LowerChar(s[i])]

\* `k in s` for strings
Contains(s, k) ==
    \E i \in 0..(Len(s) - Len(k)) : SubSeq(s, i + 1, i + Len(k)) = k

\* str.replace("'", "")
RECURSIVE StripApostrophes(_)
StripApostrophes(s) ==
    IF s = << >> THEN << >>
    ELSE IF Head(s) = "'" THEN StripApostrophes(Tail(s))
    ELSE << Head(s) >> \o StripApostrophes(Tail(s))

Max(a, b) == IF a >= b THEN a ELSE b

(* ------------------------------ state --------------------------------- *)

VARIABLES
    platform_services,     \* the services SHOW and DESC would report now
    has_service_metadata,  \* "service_metadata" in st.session_state
    service_metadata,      \* st.session_state.service_metadata
    has_messages,          \* "messages" in st.session_state
    messages,              \* st.session_state.messages
    model_name,            \* st.session_state.model_name
    num_retrieved_chunks,  \* st.session_state.num_retrieved_chunks
    num_chat_messages,     \* st.session_state.num_chat_messages
    use_chat_history,      \* st.session_state.use_chat_history
    debug,                 \* st.session_state.debug
    clear_conversation,    \* st.session_state.clear_conversation
    selected_cortex_search_service,
                           \* st.session_state.selected_cortex_search_service
    pc,                    \* position of the script run that carries a question
    chat_input,            \* what st.chat_input returned in this run
    question,              \* main's `question` after the apostrophes are removed
    chat_history,          \* create_prompt's chat_history
    question_summary,      \* create_prompt's question_summary
    query,                 \* the argument of query_cortex_search_service
    service_type,          \* query_cortex_search_service's service_type
    prompt_context,        \* create_prompt's prompt_context
    prompt,                \* the prompt create_prompt returns
    generated_response,    \* main's generated_response
    calls,                 \* external calls made by the latest script run
    run_error              \* the exception that ended the latest script run

config_vars ==
    << model_name, num_retrieved_chunks, num_chat_messages,
       use_chat_history, debug >>

discovery_vars == << has_service_metadata, service_metadata >>

vars ==
    << platform_services, has_service_metadata, service_metadata,
       has_messages, messages,
       model_name, num_retrieved_chunks, num_chat_messages, use_chat_history,
       debug, clear_conversation, selected_cortex_search_service, pc,
       chat_input, question, chat_history, question_summary, query,
       service_type, prompt_context, prompt, generated_response, calls,
       run_error >>

NoPrompt == [chat_history |-> << >>, context |-> << >>, question |-> << >>]

\* the session state before the first run of main
InitSession ==
    /\ has_service_metadata = FALSE
    /\ service_metadata = << >>
    /\ has_messages = FALSE
    /\ messages = << >>
    /\ model_name = MODELS[1]
    /\ num_retrieved_chunks = DefaultNumber
    /\ num_chat_messages = DefaultNumber
    /\ use_chat_history = TRUE
    /\ debug = FALSE
    /\ clear_conversation = FALSE
    /\ selected_cortex_search_service = << >>
    /\ pc = "Idle"
    /\ chat_input = << >>
    /\ question = << >>
    /\ chat_history = << >>
    /\ question_summary = << >>
    /\ query = << >>
    /\ service_type = ""
    /\ prompt_context = << >>
    /\ prompt = NoPrompt
    /\ generated_response = << >>
    /\ calls = << >>
    /\ run_error = "none"

Init ==
    /\ platform_services \in Catalogs
    /\ InitSession

(* ----------------------------- helpers -------------------------------- *)

Message(role, content) == [role |-> role, content |-> content]

\* init_messages without the test of the clear button
init_messages_no_clear(clear, has, msgs) ==
    IF ~has THEN << >> ELSE msgs

\* init_messages: the log after the call
init_messages(clear, has, msgs) ==
    IF clear \/ ~has THEN << >> ELSE msgs

\* classify_prompt without the lower-casing of the prompt
classify_prompt_case_sensitive(p) ==
    IF \E i \in 1..Len(STRUCTURED_KEYWORDS) :
           Contains(p, STRUCTURED_KEYWORDS[i])
    THEN "structured"
    ELSE "unstructured"

\* classify_prompt: first keyword found in the lower-cased prompt wins
classify_prompt(p) ==
    IF \E i \in 1..Len(STRUCTURED_KEYWORDS) :
           Contains(Lower(p), STRUCTURED_KEYWORDS[i])
    THEN "structured"
    ELSE "unstructured"

\* query_cortex_search_service, lines 90-91: the service a query is sent to
ServiceFor(q) ==
    IF classify_prompt(q) = "structured" THEN STRUCTURED_SERVICE
    ELSE UNSTRUCTURED_SERVICE

\* the metadata lookup without the filter on the service name
search_col_list_unfiltered(metadata, service_name) == metadata

\* query_cortex_search_service, lines 101-106
search_col_list(metadata, service_name) ==
    SelectSeq(metadata, LAMBDA s : Lower(s.name) = Lower(service_name))

\* a search that asks for the widget's maximum, whatever is configured
SearchLimitMaximum(chunks) == MaxNumber

\* query_cortex_search_service, line 97: the limit the search call carries;
\* the service returns at most that many records
SearchLimit(chunks) == chunks

\* get_chat_history with the slice running to the end of the log
get_chat_history_to_end(msgs, n) ==
    SubSeq(msgs, Max(0, Len(msgs) - n) + 1, Len(msgs))

\* get_chat_history: messages[max(0, len - n) : len - 1]
get_chat_history(msgs, n) ==
    SubSeq(msgs, Max(0, Len(msgs) - n) + 1, Len(msgs) - 1)

\* create_prompt without the test of use_chat_history
NeedsRewriteAlways(msgs, use, n) ==
    get_chat_history(msgs, n) # << >>

\* create_prompt, lines 152-154: is the summarizer called?
NeedsRewrite(msgs, use, n) ==
    use /\ get_chat_history(msgs, n) # << >>

\* create_prompt, lines 153 and 161: the history the prompt embeds
HistoryFor(msgs, use, n) ==
    IF use THEN get_chat_history(msgs, n) ELSE << >>

\* the final prompt with the rewritten query in its question section
BuildPromptRewritten(history, context, user_question, summary) ==
    [chat_history |-> history, context |-> context,
     question |-> IF summary # << >> THEN summary ELSE user_question]

\* create_prompt, lines 163-188: the three sections the f-string fills from
\* create_prompt's locals
BuildPrompt(history, context, user_question, summary) ==
    [chat_history |-> history, context |-> context,
     question |-> user_question]

\* main, line 210
AppendQuestion(msgs, text) == Append(msgs, Message("user", text))

\* the reply stored in place of the last message of the log
ReplaceByReply(msgs, text) ==
    Append(SubSeq(msgs, 1, Len(msgs) - 1), Message("assistant", text))

\* main, lines 223-225
AppendReply(msgs, text) == Append(msgs, Message("assistant", text))

\* discovery repeated in every run
NeedsDiscoveryAlways == TRUE

\* init_service_metadata, line 49
NeedsDiscovery == ~has_service_metadata

\* the chat input disabled only while no metadata is stored
disable_chat_unless_stored == ~has_service_metadata

\* main, lines 204-207
disable_chat ==
    \/ ~has_service_metadata
    \/ Len(service_metadata) = 0

\* number of configuration widgets whose value is not the default
NonDefault(m, c, n, u, d) ==
    (IF m = MODELS[1] THEN 0 ELSE 1) + (IF c = DefaultNumber THEN 0 ELSE 1)
    + (IF n = DefaultNumber THEN 0 ELSE 1) + (IF u THEN 0 ELSE 1)
    + (IF d THEN 1 ELSE 0)

(* ----------------------------- actions -------------------------------- *)

\* what a script run starts with: nothing submitted, nothing computed
FreshRun ==
    /\ chat_input' = << >>
    /\ question' = << >>
    /\ chat_history' = << >>
    /\ question_summary' = << >>
    /\ query' = << >>
    /\ service_type' = ""
    /\ prompt_context' = << >>
    /\ prompt' = NoPrompt
    /\ generated_response' = << >>

\* the run's locals go out of scope; the page keeps showing the question
\* and the reply
EndRun ==
    /\ question' = << >>
    /\ chat_history' = << >>
    /\ question_summary' = << >>
    /\ query' = << >>
    /\ service_type' = ""
    /\ prompt_context' = << >>
    /\ prompt' = NoPrompt

\* an exception leaves main: the run stops, session state stays as it is
Raise(err) ==
    /\ pc' = "Idle"
    /\ run_error' = err
    /\ EndRun
    /\ UNCHANGED << platform_services, discovery_vars, has_messages,
                    messages, config_vars, clear_conversation,
                    selected_cortex_search_service, chat_input,
                    generated_response >>

\* first runs of main: init_service_metadata, SHOW raises
DiscoverShowRaises ==
    /\ pc = "Idle"
    /\ NeedsDiscovery
    /\ calls' = << "show" >>
    /\ Raise("discovery")

\* init_service_metadata, DESC of the first service raises
DiscoverDescRaises(catalog) ==
    /\ pc = "Idle"
    /\ NeedsDiscovery
    /\ catalog = platform_services
    /\ catalog # << >>
    /\ calls' = << "show", "desc" >>
    /\ Raise("discovery")

\* a run of main in which discovery succeeds: the metadata is stored, then
\* init_messages creates the empty log
DiscoverOK(catalog) ==
    /\ pc = "Idle"
    /\ NeedsDiscovery
    /\ catalog = platform_services
    /\ has_service_metadata' = TRUE
    /\ service_metadata' = catalog
    /\ clear_conversation' = FALSE
    /\ has_messages' = TRUE
    /\ messages' = init_messages(FALSE, has_messages, messages)
    /\ calls' = << "show" >> \o [i \in 1..Len(catalog) |-> "desc"]
    /\ run_error' = "none"
    /\ FreshRun
    /\ UNCHANGED << platform_services, config_vars,
                    selected_cortex_search_service, pc >>

\* a run triggered by a configuration widget: only the widget's key changes
SetConfig(m, c, n, u, d) ==
    /\ pc = "Idle"
    /\ has_service_metadata
    /\ << m, c, n, u, d >> # config_vars
    /\ NonDefault(m, c, n, u, d) <= MaxNonDefault
    /\ model_name' = m
    /\ num_retrieved_chunks' = c
    /\ num_chat_messages' = n
    /\ use_chat_history' = u
    /\ debug' = d
    /\ clear_conversation' = FALSE
    /\ messages' = init_messages(FALSE, has_messages, messages)
    /\ calls' = << >>
    /\ run_error' = "none"
    /\ FreshRun
    /\ UNCHANGED << platform_services, discovery_vars, has_messages,
                    selected_cortex_search_service, pc >>

\* a clear that resets the whole session state, widgets included
ClearSessionState ==
    /\ pc = "Idle"
    /\ has_service_metadata
    /\ clear_conversation' = TRUE
    /\ messages' = << >>
    /\ model_name' = MODELS[1]
    /\ num_retrieved_chunks' = DefaultNumber
    /\ num_chat_messages' = DefaultNumber
    /\ use_chat_history' = TRUE
    /\ debug' = FALSE
    /\ calls' = << >>
    /\ run_error' = "none"
    /\ FreshRun
    /\ UNCHANGED << platform_services, discovery_vars, has_messages,
                    selected_cortex_search_service, pc >>

\* a run triggered by the "Clear conversation" button
ClearConversation ==
    /\ pc = "Idle"
    /\ has_service_metadata
    /\ clear_conversation' = TRUE
    /\ messages' = init_messages(TRUE, has_messages, messages)
    /\ calls' = << >>
    /\ run_error' = "none"
    /\ FreshRun
    /\ UNCHANGED << platform_services, discovery_vars, has_messages,
                    config_vars, selected_cortex_search_service, pc >>

\* a search routed by the question instead of the query it is given
StartSearchByQuestion(q) ==
    LET asked == IF pc = "AwaitingRewrite" THEN question ELSE q
    IN /\ query' = q
       /\ service_type' = classify_prompt(asked)
       /\ selected_cortex_search_service' = ServiceFor(asked)
       /\ pc' = "Retrieving"

\* query_cortex_search_service up to the search call, lines 87-98
StartSearch(q) ==
    /\ query' = q
    /\ service_type' = classify_prompt(q)
    /\ selected_cortex_search_service' = ServiceFor(q)
    /\ pc' = "Retrieving"

\* a run triggered by a submitted question, lines 196-216 and create_prompt
\* up to its first external call
Submit(q) ==
    /\ pc = "Idle"
    /\ ~disable_chat
    /\ Len(messages) + 2 <= MaxLog
    /\ LET msgs == AppendQuestion(
                       init_messages(FALSE, has_messages, messages), q)
           stripped == StripApostrophes(q)
       IN /\ messages' = msgs
          /\ chat_input' = q
          /\ question' = stripped
          /\ chat_history' =
                 HistoryFor(msgs, use_chat_history, num_chat_messages)
          /\ IF NeedsRewrite(msgs, use_chat_history, num_chat_messages)
             THEN /\ pc' = "AwaitingRewrite"
                  /\ calls' = << "complete" >>
                  /\ UNCHANGED << query, service_type,
                                  selected_cortex_search_service >>
             ELSE /\ StartSearch(stripped)
                  /\ calls' = << "search" >>
    /\ clear_conversation' = FALSE
    /\ question_summary' = << >>
    /\ prompt_context' = << >>
    /\ prompt' = NoPrompt
    /\ generated_response' = << >>
    /\ run_error' = "none"
    /\ UNCHANGED << platform_services, discovery_vars, has_messages,
                    config_vars >>

\* a summarizer that calls the completion service a second time
RewriteReturnsRetried(summary) ==
    /\ pc = "AwaitingRewrite"
    /\ question_summary' = summary
    /\ StartSearch(summary)
    /\ calls' = calls \o << "complete", "search" >>
    /\ UNCHANGED << platform_services, discovery_vars, has_messages,
                    messages, config_vars, clear_conversation, chat_input,
                    question, chat_history, prompt_context, prompt,
                    generated_response, run_error >>

\* make_chat_history_summary: complete returns the rewritten query
RewriteReturns(summary) ==
    /\ pc = "AwaitingRewrite"
    /\ question_summary' = summary
    /\ StartSearch(summary)
    /\ calls' = Append(calls, "search")
    /\ UNCHANGED << platform_services, discovery_vars, has_messages,
                    messages, config_vars, clear_conversation, chat_input,
                    question, chat_history, prompt_context, prompt,
                    generated_response, run_error >>

\* make_chat_history_summary: complete raises
RewriteRaises ==
    /\ pc = "AwaitingRewrite"
    /\ UNCHANGED calls
    /\ Raise("summary")

\* query_cortex_search_service: the search call raises
SearchRaises ==
    /\ pc = "Retrieving"
    /\ UNCHANGED calls
    /\ Raise("search")

\* query_cortex_search_service, lines 99-120 with k records returned, then
\* create_prompt's prompt and the final completion call of main
SearchReturns(k) ==
    /\ pc = "Retrieving"
    /\ k <= SearchLimit(num_retrieved_chunks)
    /\ IF search_col_list(service_metadata, selected_cortex_search_service)
              = << >>
       THEN /\ UNCHANGED calls
            /\ Raise("not_found")
       ELSE LET context == [i \in 1..k |-> i]
            IN /\ prompt_context' = context
               /\ prompt' = BuildPrompt(chat_history, context, question,
                                        question_summary)
               /\ pc' = "Completing"
               /\ calls' = Append(calls, "complete")
               /\ UNCHANGED << platform_services, discovery_vars,
                               has_messages, messages, config_vars,
                               clear_conversation,
                               selected_cortex_search_service, chat_input,
                               question, chat_history, question_summary,
                               query, service_type, generated_response,
                               run_error >>

\* main, lines 218-225: the completion returns and the reply is appended
CompleteReturns(text) ==
    /\ pc = "Completing"
    /\ generated_response' = text
    /\ messages' = AppendReply(messages, text)
    /\ pc' = "Idle"
    /\ EndRun
    /\ UNCHANGED << platform_services, discovery_vars, has_messages,
                    config_vars, clear_conversation,
                    selected_cortex_search_service, chat_input, calls,
                    run_error >>

\* main, line 218: the completion raises
CompleteRaises ==
    /\ pc = "Completing"
    /\ UNCHANGED calls
    /\ Raise("completion")

\* the environment: search services are created on a platform that had none
CreateServices(catalog) ==
    /\ platform_services = << >>
    /\ catalog # << >>
    /\ platform_services' = catalog
    /\ UNCHANGED << discovery_vars, has_messages, messages, config_vars,
                    clear_conversation, selected_cortex_search_service, pc,
                    chat_input, question, chat_history, question_summary,
                    query, service_type, prompt_context, prompt,
                    generated_response, calls, run_error >>

Next ==
    \/ \E catalog \in Catalogs : CreateServices(catalog)
    \/ DiscoverShowRaises
    \/ \E catalog \in Catalogs : DiscoverDescRaises(catalog)
    \/ \E catalog \in Catalogs : DiscoverOK(catalog)
    \/ \E m \in {MODELS[i] : i \in 1..Len(MODELS)} :
          SetConfig(m, num_retrieved_chunks, num_chat_messages,
                    use_chat_history, debug)
    \/ \E c \in MinNumber..MaxNumber :
          SetConfig(model_name, c, num_chat_messages, use_chat_history, debug)
    \/ \E n \in MinNumber..MaxNumber :
          SetConfig(model_name, num_retrieved_chunks, n, use_chat_history,
                    debug)
    \/ SetConfig(model_name, num_retrieved_chunks, num_chat_messages,
                 ~use_chat_history, debug)
    \/ SetConfig(model_name, num_retrieved_chunks, num_chat_messages,
                 use_chat_history, ~debug)
    \/ ClearConversation
    \/ \E q \in Questions : Submit(q)
    \/ \E summary \in Completions : RewriteReturns(summary)
    \/ RewriteRaises
    \/ SearchRaises
    \/ \E k \in 0..MaxNumber : SearchReturns(k)
    \/ \E text \in Completions : CompleteReturns(text)
    \/ CompleteRaises

Spec == Init /\ [][Next]_vars

(* ------------------- classify_prompt on its own ----------------------- *)

UpperChar(c) ==
    IF \E i \in 1..Len(LowerLetters) : LowerLetters[i] = c
    THEN UpperLetters[CHOOSE i \in 1..Len(LowerLetters) : LowerLetters[i] = c]
    ELSE c

UpperText(s) == [i \in 1..Len(s) |-> UpperChar(s[i])]

Capitalised(s) ==
    [i \in 1..Len(s) |-> IF i = 1 THEN UpperChar(s[i]) ELSE s[i]]

\* the letters of the shortest keyword in both cases, and a letter of none
ClassifyAlphabet == {"e", "t", "f", "E", "T", "x"}

\* every text over ClassifyAlphabet of at most MaxQueryLen letters
ShortQueries ==
    UNION {[1..n -> ClassifyAlphabet] : n \in 0..MaxQueryLen}

\* every keyword as written, in upper case and capitalised, alone and inside
\* a longer text; and every keyword with its first or last letter missing
KeywordQueries ==
    LET kws == {STRUCTURED_KEYWORDS[i] : i \in 1..Len(STRUCTURED_KEYWORDS)}
        cased == UNION {{k, UpperText(k), Capitalised(k)} : k \in kws}
        before == {<< >>, <<"x">>}
        after == {<< >>, <<"'", "s">>}
    IN {b \o k \o a : b \in before, k \in cased, a \in after}
       \cup {Tail(k) : k \in kws}
       \cup {SubSeq(k, 1, Len(k) - 1) : k \in kws}

ClassifyInputs == ShortQueries \cup KeywordQueries

InitClassify ==
    /\ query \in ClassifyInputs
    /\ pc = "classify"
    /\ service_type = ""
    /\ platform_services = << >>
    /\ has_service_metadata = FALSE
    /\ service_metadata = << >>
    /\ has_messages = FALSE
    /\ messages = << >>
    /\ model_name = MODELS[1]
    /\ num_retrieved_chunks = DefaultNumber
    /\ num_chat_messages = DefaultNumber
    /\ use_chat_history = TRUE
    /\ debug = FALSE
    /\ clear_conversation = FALSE
    /\ selected_cortex_search_service = << >>
    /\ chat_input = << >>
    /\ question = << >>
    /\ chat_history = << >>
    /\ question_summary = << >>
    /\ prompt_context = << >>
    /\ prompt = NoPrompt
    /\ generated_response = << >>
    /\ calls = << >>
    /\ run_error = "none"

\* query_cortex_search_service, line 90, for a query given from outside
Classify ==
    /\ pc = "classify"
    /\ service_type' = classify_prompt(query)
    /\ pc' = "classified"
    /\ UNCHANGED << platform_services, discovery_vars, has_messages,
                    messages, config_vars, clear_conversation,
                    selected_cortex_search_service, chat_input, question,
                    chat_history, question_summary, query, prompt_context,
                    prompt, generated_response, calls, run_error >>

NextClassify == Classify

SpecClassify == InitClassify /\ [][NextClassify]_vars

TypeOK ==
    /\ pc \in {"Idle", "AwaitingRewrite", "Retrieving", "Completing",
              "classify", "classified"}
    /\ num_chat_messages \in MinNumber..MaxNumber
    /\ num_retrieved_chunks \in MinNumber..MaxNumber
    /\ Len(messages) <= MaxLog

(* ------------------------- properties -------------------------------- *)

\* a text with its apostrophes left out
WithoutApostrophes(s) == SelectSeq(s, LAMBDA c : c # "'")

HasApostrophe(s) == \E i \in 1..Len(s) : s[i] = "'"

\* the log without its last message: during a turn, the log as it was when
\* the question was submitted
Prior == SubSeq(messages, 1, Len(messages) - 1)

InTurn == pc # "Idle"

TurnErrors == {"summary", "search", "not_found", "completion"}

\* the turn that is in flight ends with an exception in this step
TurnFails == pc # "Idle" /\ pc' = "Idle" /\ run_error' \in TurnErrors

\* the turn that is in flight ends with its reply in this step
TurnSucceeds == pc = "Completing" /\ pc' = "Idle" /\ run_error' = "none"

\* the selected service has no entry in the discovered metadata
BackendAbsent ==
    \A i \in 1..Len(service_metadata) :
        Lower(service_metadata[i].name)
            # Lower(selected_cortex_search_service)

\* C1 (as claimed): when a stage of a turn fails, the log after the turn is
\* the log as it was before the question was submitted.
C1_LogUntouchedOnFailure ==
    [][TurnFails => messages' = Prior]_vars

\* C2 (as claimed): when the summarizer is called, the history it is handed
\* is the min(P, N) most recent of the P prior messages, in order.
C2_HistoryIsLastN ==
    pc = "AwaitingRewrite" =>
        LET P == Len(Prior)
            take == IF P <= num_chat_messages THEN P ELSE num_chat_messages
        IN chat_history = SubSeq(Prior, P - take + 1, P)

\* C3 (as claimed): with use_chat_history on and at least one prior message,
\* for every window, the summarizer is called and its output is the
\* retrieval query.
C3_RewriteWheneverHistory ==
    (pc \in {"Retrieving", "Completing"} /\ use_chat_history
        /\ Len(Prior) >= 1)
    => (Head(calls) = "complete" /\ question_summary # << >>
        /\ query = question_summary)

\* C4 (as claimed): with use_chat_history off the summarizer is never called
\* and the retrieval query is exactly the question as entered.
C4_RawQuestionWhenHistoryOff ==
    (InTurn /\ ~use_chat_history)
    => (pc # "AwaitingRewrite" /\ Head(calls) = "search"
        /\ question_summary = << >> /\ query = chat_input)

\* C4 (amended): with use_chat_history off the summarizer is never called
\* and the retrieval query is the question as entered with its apostrophes
\* removed.
C4_StrippedQuestionWhenHistoryOff ==
    (InTurn /\ ~use_chat_history)
    => (pc # "AwaitingRewrite" /\ Head(calls) = "search"
        /\ question_summary = << >>
        /\ query = WithoutApostrophes(chat_input))

C4_Witness ==
    /\ pc = "Completing"
    /\ ~use_chat_history
    /\ Len(messages) >= 3
    /\ HasApostrophe(chat_input)

\* C5 (as claimed): when no turn is in flight the log alternates user,
\* assistant, ... starting with user, and has even length.
C5_LogAlternates ==
    pc = "Idle" =>
        /\ Len(messages) % 2 = 0
        /\ \A i \in 1..Len(messages) :
               messages[i].role = IF i % 2 = 1 THEN "user" ELSE "assistant"

\* C6 (as claimed): a clear leaves the log empty with no turn in flight, the
\* log stays empty until a question is submitted, and that question is
\* processed without history: no summarizer call, and the question as entered
\* is the retrieval query.
C6_FreshTurnAfterClearRaw ==
    [][/\ clear_conversation' => (messages' = << >> /\ pc' = "Idle")
       /\ (messages = << >> /\ pc = "Idle" /\ pc' = "Idle")
              => messages' = << >>
       /\ (messages = << >> /\ pc = "Idle" /\ pc' # "Idle")
              => /\ pc' = "Retrieving"
                 /\ calls' = << "search" >>
                 /\ chat_history' = << >>
                 /\ question_summary' = << >>
                 /\ query' = chat_input']_vars

\* C6 (amended): as claimed, except that the retrieval query of the first
\* question after a clear is the question with its apostrophes removed.
C6_FreshTurnAfterClear ==
    [][/\ clear_conversation' => (messages' = << >> /\ pc' = "Idle")
       /\ (messages = << >> /\ pc = "Idle" /\ pc' = "Idle")
              => messages' = << >>
       /\ (messages = << >> /\ pc = "Idle" /\ pc' # "Idle")
              => /\ pc' = "Retrieving"
                 /\ calls' = << "search" >>
                 /\ chat_history' = << >>
                 /\ question_summary' = << >>
                 /\ query' = WithoutApostrophes(chat_input')]_vars

\* a clear of a session in which a question has been searched for
C6_Witness ==
    /\ clear_conversation
    /\ messages = << >>
    /\ selected_cortex_search_service # << >>
    /\ use_chat_history

\* C7: a successful turn leaves the log as it was before the turn followed
\* by the user message holding the question as entered and the assistant
\* message holding the text the final completion returned; no other step
\* than a clear changes a message of the log.
C7_TurnAppendsPair ==
    [][/\ (pc = "Idle" /\ pc' # "Idle")
              => messages' = Append(messages, Message("user", chat_input'))
       /\ TurnSucceeds
              => /\ messages[Len(messages)] = Message("user", chat_input)
                 /\ messages' = Append(messages,
                        Message("assistant", generated_response'))
       /\ (InTurn /\ ~TurnSucceeds) => messages' = messages
       /\ (pc = "Idle" /\ pc' = "Idle" /\ ~clear_conversation')
              => messages' = messages]_vars

C7_Witness ==
    /\ pc = "Idle"
    /\ Len(messages) >= 4
    /\ HasApostrophe(chat_input)
    /\ generated_response # << >>
    /\ messages[Len(messages) - 1] = Message("user", chat_input)
    /\ messages[Len(messages)] = Message("assistant", generated_response)

\* C8: when the selected service has no entry in the discovered metadata the
\* search step raises and returns no context, the final completion is not
\* called and no reply is appended.
C8_AbsentBackendRaises ==
    [][/\ (pc = "Retrieving" /\ BackendAbsent)
              => /\ pc' = "Idle"
                 /\ run_error' \in {"search", "not_found"}
                 /\ prompt_context' = << >>
                 /\ calls' = calls
                 /\ generated_response' = << >>
                 /\ messages' = messages
       /\ pc' = "Completing" => ~BackendAbsent']_vars

C8_Witness ==
    /\ pc = "Idle"
    /\ run_error = "not_found"
    /\ BackendAbsent
    /\ messages[Len(messages)].role = "user"

\* C9 (as claimed): the question section of the final prompt is the question
\* as entered, the text the log records as the user message.
C9_PromptHasOriginalQuestion ==
    pc = "Completing" =>
        /\ messages[Len(messages)] = Message("user", chat_input)
        /\ prompt.question = chat_input

\* C9 (amended): the question section of the final prompt is the question as
\* entered with its apostrophes removed, never the rewritten query; the log
\* records the question as entered.
C9_PromptHasStrippedQuestion ==
    pc = "Completing" =>
        /\ messages[Len(messages)] = Message("user", chat_input)
        /\ prompt.question = WithoutApostrophes(chat_input)
        /\ question_summary # << >> => prompt.question # question_summary

C9_Witness ==
    /\ pc = "Completing"
    /\ question_summary # << >>
    /\ HasApostrophe(chat_input)

\* C10 (as claimed): a run in which discovery queried the platform, also one
\* whose query failed, does not end with an exception and leaves a descriptor
\* set stored for the session.
C10_DiscoveryDegrades ==
    (calls # << >> /\ Head(calls) = "show")
    => /\ run_error = "none"
       /\ has_service_metadata

\* no call of a turn (search, completion) among the calls c
NoTurnCalls(c) ==
    \A i \in 1..Len(c) : c[i] \notin {"search", "complete"}

\* no discovery query (SHOW, DESC) among the calls c
NoDiscoveryCalls(c) ==
    \A i \in 1..Len(c) : c[i] \notin {"show", "desc"}

EmptySetStored == has_service_metadata /\ service_metadata = << >>

\* C11 (as claimed): while the stored descriptor set is empty the input is
\* disabled and no turn starts; once services exist on the platform, a run of
\* the script leaves the input enabled.
C11_InputFollowsPlatform ==
    [][/\ EmptySetStored
              => /\ disable_chat
                 /\ pc = "Idle" /\ pc' = "Idle"
                 /\ messages' = messages
                 /\ NoTurnCalls(calls')
       /\ (EmptySetStored /\ platform_services # << >>
               /\ platform_services' = platform_services)
              => ~disable_chat']_vars

\* C11 (amended): while the stored descriptor set is empty the input is
\* disabled and no turn starts; the stored set stays empty, and the input
\* disabled, for the rest of the session, also once services exist on the
\* platform.
C11_InputDisabledWhileEmpty ==
    [][EmptySetStored
           => /\ disable_chat
              /\ pc = "Idle" /\ pc' = "Idle"
              /\ messages' = messages
              /\ NoTurnCalls(calls')
              /\ (NoDiscoveryCalls(calls') \/ calls' = calls)
              /\ has_service_metadata' /\ service_metadata' = << >>
              /\ disable_chat']_vars

\* a run (the clear button) of a session that stored the empty set, on a
\* platform that has services by now
C11_Witness ==
    /\ EmptySetStored
    /\ platform_services # << >>
    /\ clear_conversation
    /\ calls = << >>
    /\ disable_chat

\* C12 (as claimed): while a turn is in flight the question input is
\* disabled, so that no second question and no clear is accepted.
C12_InputDisabledInFlight ==
    InTurn => disable_chat

SameLetter(a, b) ==
    \/ a = b
    \/ \E n \in 1..Len(UpperLetters) :
           a = UpperLetters[n] /\ b = LowerLetters[n]

\* the keyword kw stands in q at position i, in whatever case
KeywordAt(q, kw, i) ==
    /\ i + Len(kw) - 1 <= Len(q)
    /\ \A j \in 1..Len(kw) : SameLetter(q[i + j - 1], kw[j])

HasKeyword(q) ==
    \E n \in 1..Len(STRUCTURED_KEYWORDS), i \in 1..Len(q) :
        KeywordAt(q, STRUCTURED_KEYWORDS[n], i)

ExpectedType(q) == IF HasKeyword(q) THEN "structured" ELSE "unstructured"

\* C14: classify_prompt returns "structured" exactly for the queries that,
\* in lower case, contain one of the keywords, and "unstructured" for every
\* other query, the empty one included; classifying changes neither the
\* query nor the session state.
C14_ClassifyByKeyword ==
    [][pc' = "classified"
           => /\ service_type' = ExpectedType(query')
              /\ query' = query
              /\ UNCHANGED << discovery_vars, has_messages, messages,
                              config_vars, clear_conversation,
                              selected_cortex_search_service >>]_vars

\* a keyword in upper case inside a longer text, classified structured
C14_Witness ==
    /\ pc = "classified"
    /\ service_type = "structured"
    /\ Len(query) > 6
    /\ Head(query) = "x"
    /\ Lower(query) # query

\* C15: once the descriptor set is stored, empty or not, no later step of
\* the session queries the platform for discovery or changes the stored set.
C15_DiscoveryOnce ==
    [][has_service_metadata
           => /\ has_service_metadata'
              /\ service_metadata' = service_metadata
              /\ (calls' = calls \/ NoDiscoveryCalls(calls'))]_vars

\* a run (the debug toggle) of a session whose stored set is no longer what
\* the platform would report
C15_Witness ==
    /\ has_service_metadata
    /\ service_metadata # platform_services
    /\ debug
    /\ calls = << >>

\* C16: a clear leaves the configuration (model, number of chunks, history
\* window, use of history, debug) and the stored descriptor set as they were.
C16_ClearKeepsConfig ==
    [][clear_conversation'
           => /\ messages' = << >>
              /\ config_vars' = config_vars
              /\ discovery_vars' = discovery_vars]_vars

\* a clear of a conversation held with a history window that is not the
\* default
C16_Witness ==
    /\ clear_conversation
    /\ messages = << >>
    /\ num_chat_messages # DefaultNumber
    /\ service_metadata # << >>
    /\ selected_cortex_search_service # << >>

ExpectedCalls(at, rewritten) ==
    CASE at = "AwaitingRewrite" -> << "complete" >>
      [] at = "Retrieving" ->
             IF rewritten THEN << "complete", "search" >> ELSE << "search" >>
      [] OTHER ->
             IF rewritten THEN << "complete", "search", "complete" >>
             ELSE << "search", "complete" >>

\* C18: a turn makes its external calls in the order summarizer completion
\* (only when the question is rewritten), search, final completion, each
\* once, and a successful turn appends the reply after the last of them.
C18_CallOrder ==
    [][/\ InTurn' => calls' = ExpectedCalls(pc', question_summary' # << >>)
       /\ TurnSucceeds
              => /\ calls' = calls
                 /\ calls = ExpectedCalls(pc, question_summary # << >>)
                 /\ messages' = Append(messages,
                        Message("assistant", generated_response'))]_vars

C18_Witness ==
    /\ pc = "Idle"
    /\ run_error = "none"
    /\ generated_response # << >>
    /\ calls = << "complete", "search", "complete" >>
    /\ messages[Len(messages)].role = "assistant"

\* C19 (as claimed): no search call is issued for a service that has no
\* entry in the discovered metadata.
C19_NoSearchForAbsentBackend ==
    (selected_cortex_search_service # << >> /\ BackendAbsent)
    => \A i \in 1..Len(calls) : calls[i] # "search"

\* h is the end of p
IsSuffix(h, p) ==
    /\ Len(h) <= Len(p)
    /\ h = SubSeq(p, Len(p) - Len(h) + 1, Len(p))

\* C20: the history handed to the summarizer and the history in the final
\* prompt are taken from the end of the log as it was before the question
\* of the turn was appended; with use_chat_history off the history is empty.
C20_HistoryExcludesQuestion ==
    InTurn =>
        /\ IsSuffix(chat_history, Prior)
        /\ ~use_chat_history => chat_history = << >>
        /\ pc = "Completing" => prompt.chat_history = chat_history

C20_Witness ==
    /\ pc = "Completing"
    /\ prompt.chat_history # << >>
    /\ Len(messages) >= 3
    /\ messages[Len(messages) - 1].content = chat_input

====
